---- MODULE Spec2Model ----
(***************************************************************************)
(* Model of the Nature Remo sensor platform (sensor.py): the smart-meter   *)
(* sensors' state properties, the returned-energy sensor's extra state     *)
(* attributes, the listener subscription of the smart-meter sensors and    *)
(* the platform setup.                                                     *)
(*                                                                         *)
(* Numbers.  A register value is a Python float; the model keeps the       *)
(* integer-valued ones.  Every multiplier of the unit table is a power of  *)
(* ten, so a number is kept as a mantissa v and a decimal exponent e, the  *)
(* number v * 10^e: a product multiplies the mantissas and adds the        *)
(* exponents, and is exact.                                                *)
(***************************************************************************)
EXTENDS Integers, Sequences, FiniteSets, TLC

VARIABLES
    props,          \* smart_meter["echonetlite_properties"] of the appliance
    snap,           \* history: the list as the coordinator last stored it
    results,        \* history: what each sensor's state returned on this snapshot
    extra,          \* history: what extra_state_attributes returned on this snapshot
    attrs,          \* instance attributes each sensor object has
    hass,           \* each sensor's place in the host: "new", "added", "removed"
    listeners,      \* sensors whose async_write_ha_state the coordinator holds
    on_remove,      \* sensors whose unsubscribe callback the host runs on removal
    written,        \* the state the host last wrote for each sensor
    notified,       \* history: sensors called back by the last refresh
    wrote,          \* history: sensors whose state the last refresh wrote
    op,             \* history: the operation that ran last
    discovery_info, \* argument of async_setup_platform
    appliances,     \* coordinator.data["appliances"]
    devices,        \* coordinator.data["devices"]
    entities,       \* the sequence handed to async_add_entities
    add_calls,      \* how many times async_add_entities was called
    pc              \* position of async_setup_platform

sensorVars == <<props, snap, results, extra, attrs>>
lifeVars == <<hass, listeners, on_remove, written, notified, wrote>>
setupVars == <<discovery_info, appliances, devices, entities, add_calls, pc>>
vars == <<props, snap, results, extra, attrs, hass, listeners, on_remove, written,
          notified, wrote, op, discovery_info, appliances, devices, entities,
          add_calls, pc>>

-----------------------------------------------------------------------------
(* Bounds of the enumerated inputs.                                        *)

MaxUnitCode == 13
MaxCoefficient == 2
MaxAppliances == 2
MaxDevices == 2

(* Echonet Lite property codes the sensors read.                           *)
EpcCoefficient == 211
EpcConsumed == 224
EpcUnit == 225
EpcReturned == 227
EpcPower == 231

-----------------------------------------------------------------------------
(* Values.                                                                 *)

\* A register value as the device cloud reports it: numeric text or a number
\* (num, with the number n), or text float() cannot parse.
Num(n) == [num |-> TRUE, n |-> n]
Malformed == [num |-> FALSE, n |-> 0]

\* What reading a property gives its caller.
Value(n, e) == [tag |-> "value", v |-> n, e |-> e, exc |-> "no"]
Text == [tag |-> "text", v |-> 0, e |-> 0, exc |-> "no"]
NoneState == [tag |-> "none", v |-> 0, e |-> 0, exc |-> "no"]
Raised(x) == [tag |-> "raise", v |-> 0, e |-> 0, exc |-> x]
Unread == [tag |-> "unread", v |-> 0, e |-> 0, exc |-> "no"]

MeterSensors == {"power", "energy", "returned"}

-----------------------------------------------------------------------------
(* The state properties.                                                   *)

EmptyDict == [k \in {} |-> 0]

\* {int(p["epc"]): float(p["val"]) for p in list}: a later entry of the list
\* replaces an earlier one with the same code.
RECURSIVE DictOf(_)
DictOf(list) ==
    IF list = <<>> THEN EmptyDict
    ELSE LET p == list[Len(list)]
         IN  (p.epc :> p.val.n) @@ DictOf(SubSeq(list, 1, Len(list) - 1))

\* float(p["val"]) raises ValueError on text that is no number.
FloatFails(list) == \E i \in 1..Len(list) : ~list[i].val.num

\* dict.get(key, default)
Get(d, key, default) == IF key \in DOMAIN d THEN d[key] ELSE default

\* unit_table, each multiplier by its decimal exponent: 0.1 is 10^-1.
unit_table ==
    (0 :> 0) @@ (1 :> -1) @@ (2 :> -2) @@ (3 :> -3) @@ (4 :> -4) @@
    (10 :> 1) @@ (11 :> 2) @@ (12 :> 3)

\* NatureRemoE.state: the val of the first entry with code 231, as reported.
NatureRemoE_state(list) ==
    LET hits == {i \in 1..Len(list) : list[i].epc = EpcPower}
    IN  IF hits = {} THEN Raised("StopIteration")
        ELSE LET first == CHOOSE i \in hits : \A j \in hits : i <= j
             IN  IF list[first].val.num THEN Value(list[first].val.n, 0) ELSE Text

\* Variant: the coefficient register is not applied.
NatureRemoEnergySensor_state_NoCoefficient(list) ==
    IF FloatFails(list) THEN Raised("ValueError")
    ELSE LET d == DictOf(list)
             value == Get(d, EpcConsumed, 0)
             unit_code == Get(d, EpcUnit, 0)
             unit == Get(unit_table, unit_code, 0)
         IN  Value(value, unit)

NatureRemoEnergySensor_state(list) ==
    IF FloatFails(list) THEN Raised("ValueError")
    ELSE LET d == DictOf(list)
             value == Get(d, EpcConsumed, 0)
             coefficient == Get(d, EpcCoefficient, 1)
             unit_code == Get(d, EpcUnit, 0)
             unit == Get(unit_table, unit_code, 0)   \* default multiplier 1
         IN  Value(value * coefficient, unit)

\* Variant: the branch for a unit scale without a coefficient is missing.
NatureRemoReturnedEnergySensor_state_NoUnitBranch(list) ==
    IF FloatFails(list) THEN Raised("ValueError")
    ELSE LET d == DictOf(list)
             has(k) == k \in DOMAIN d
         IN  IF has(EpcCoefficient) /\ has(EpcUnit) /\ has(EpcReturned)
             THEN IF d[EpcUnit] \in DOMAIN unit_table
                  THEN Value(d[EpcReturned] * d[EpcCoefficient], unit_table[d[EpcUnit]])
                  ELSE NoneState
             ELSE IF has(EpcReturned) THEN Value(d[EpcReturned], 0)
             ELSE NoneState

NatureRemoReturnedEnergySensor_state(list) ==
    IF FloatFails(list) THEN Raised("ValueError")
    ELSE LET d == DictOf(list)
             has(k) == k \in DOMAIN d
         IN  IF has(EpcCoefficient) /\ has(EpcUnit) /\ has(EpcReturned)
             THEN IF d[EpcUnit] \in DOMAIN unit_table
                  THEN Value(d[EpcReturned] * d[EpcCoefficient], unit_table[d[EpcUnit]])
                  ELSE NoneState    \* KeyError, caught
             ELSE IF has(EpcUnit) /\ has(EpcReturned)
             THEN IF d[EpcUnit] \in DOMAIN unit_table
                  THEN Value(d[EpcReturned], unit_table[d[EpcUnit]])
                  ELSE NoneState    \* KeyError, caught
             ELSE IF has(EpcReturned) THEN Value(d[EpcReturned], 0)
             ELSE NoneState         \* props.get(227) is None

StateOf(s, list) ==
    CASE s = "power" -> NatureRemoE_state(list)
      [] s = "energy" -> NatureRemoEnergySensor_state(list)
      [] s = "returned" -> NatureRemoReturnedEnergySensor_state(list)

\* The attributes the constructors leave on a sensor object.
InitAttrs == [s \in MeterSensors |-> {"_coordinator", "_appliance_id", "_name"}]

\* NatureRemoReturnedEnergySensor.extra_state_attributes reads self.calc_mode.
extra_state_attributes(a) ==
    IF "calc_mode" \in a THEN Value(0, 0) ELSE Raised("AttributeError")

-----------------------------------------------------------------------------
(* The snapshots the coordinator is given.                                 *)

Opt(epc, vals) == {<<>>} \cup {<<[epc |-> epc, val |-> v]>> : v \in vals}

Coefficients == {Num(n) : n \in 1..MaxCoefficient} \cup {Malformed}
UnitCodes == {Num(n) : n \in 0..MaxUnitCode} \cup {Malformed}
ConsumedVals == {Num(0), Num(150), Malformed}
ReturnedVals == {Num(80), Malformed}
PowerVals == {Num(500), Malformed}

Snapshots ==
    {a \o b \o c \o d \o e :
        a \in Opt(EpcCoefficient, Coefficients),
        b \in Opt(EpcConsumed, ConsumedVals),
        c \in Opt(EpcUnit, UnitCodes),
        d \in Opt(EpcReturned, ReturnedVals),
        e \in Opt(EpcPower, PowerVals)}

\* The lists a later poll brings.
P(epc, n) == [epc |-> epc, val |-> Num(n)]

FullList ==
    <<P(EpcCoefficient, 2), P(EpcConsumed, 150), P(EpcUnit, 1),
      P(EpcReturned, 80), P(EpcPower, 500)>>

PolledSnapshots ==
    { FullList,
      SubSeq(FullList, 1, 4),
      <<P(EpcPower, 500)>>,
      <<[epc |-> EpcConsumed, val |-> Malformed], P(EpcPower, 500)>>,
      <<>> }

-----------------------------------------------------------------------------
(* Values of the variables a specification does not use.                   *)

NoMeter == [s \in MeterSensors |-> Unread]
NoHass == [s \in MeterSensors |-> "new"]

SensorIdle ==
    /\ snap = props
    /\ results = NoMeter
    /\ extra = Unread
LifeIdle ==
    /\ hass = NoHass
    /\ listeners = {}
    /\ on_remove = {}
    /\ written = NoMeter
    /\ notified = {}
    /\ wrote = {}
SetupIdle ==
    /\ discovery_info = "None"
    /\ appliances = EmptyDict
    /\ devices = EmptyDict
    /\ entities = <<>>
    /\ add_calls = 0
    /\ pc = "idle"

-----------------------------------------------------------------------------
(* Reading the sensors of one smart meter.                                 *)

SensorInit ==
    /\ props \in Snapshots
    /\ attrs = InitAttrs
    /\ op = "init"
    /\ SensorIdle /\ LifeIdle /\ SetupIdle

\* The coordinator stores the list of a new poll.
CoordinatorRefresh(p) ==
    /\ props' = p
    /\ snap' = p
    /\ results' = NoMeter
    /\ extra' = Unread
    /\ op' = "refresh"
    /\ UNCHANGED <<attrs, lifeVars, setupVars>>

\* The register each smart-meter sensor reports.
RegisterOf(s) ==
    CASE s = "power" -> EpcPower
      [] s = "energy" -> EpcConsumed
      [] s = "returned" -> EpcReturned

\* Variant: the property takes the register it read out of the shared list.
ReadStateConsuming(s) ==
    /\ results' = [results EXCEPT ![s] = StateOf(s, props)]
    /\ props' = SelectSeq(props, LAMBDA p : p.epc # RegisterOf(s))
    /\ op' = "state"
    /\ UNCHANGED <<snap, extra, attrs, lifeVars, setupVars>>

\* The host reads sensor s's state property.  The property builds its own
\* dictionary and assigns nothing of the coordinator or of the sensor.
ReadState(s) ==
    /\ results' = [results EXCEPT ![s] = StateOf(s, props)]
    /\ op' = "state"
    /\ UNCHANGED <<props, snap, extra, attrs, lifeVars, setupVars>>

\* The host reads the returned-energy sensor's extra_state_attributes.
ReadExtraStateAttributes ==
    /\ extra' = extra_state_attributes(attrs["returned"])
    /\ op' = "attributes"
    /\ UNCHANGED <<props, snap, results, attrs, lifeVars, setupVars>>

SensorNext ==
    \/ \E p \in PolledSnapshots : CoordinatorRefresh(p)
    \/ \E s \in MeterSensors : ReadState(s)
    \/ ReadExtraStateAttributes

SensorSpec == SensorInit /\ [][SensorNext]_vars

-----------------------------------------------------------------------------
(* The smart-meter sensors as listeners of the coordinator.                *)

LifeInit ==
    /\ props \in PolledSnapshots
    /\ attrs = InitAttrs
    /\ op = "init"
    /\ SensorIdle /\ LifeIdle /\ SetupIdle

\* async_added_to_hass of the three smart-meter sensors:
\* self.async_on_remove(self._coordinator.async_add_listener(self.async_write_ha_state))
async_added_to_hass(s) ==
    /\ hass[s] = "new"
    /\ hass' = [hass EXCEPT ![s] = "added"]
    /\ listeners' = listeners \cup {s}
    /\ on_remove' = on_remove \cup {s}
    /\ op' = "added"
    /\ UNCHANGED <<sensorVars, written, notified, wrote, setupVars>>

\* The host removes the sensor and runs the callbacks given to async_on_remove.
RemoveFromHass(s) ==
    /\ hass[s] = "added"
    /\ hass' = [hass EXCEPT ![s] = "removed"]
    /\ listeners' = IF s \in on_remove THEN listeners \ {s} ELSE listeners
    /\ on_remove' = on_remove \ {s}
    /\ op' = "removed"
    /\ UNCHANGED <<sensorVars, written, notified, wrote, setupVars>>

\* async_write_ha_state of s on list p: the host reads s.state and stores it;
\* an exception of the property leaves the stored state as it was.
WriteSucceeds(s, p) == StateOf(s, p).tag # "raise"

\* A successful poll: the coordinator stores the list and calls every listener.
Refresh(p, how) ==
    /\ props' = p
    /\ snap' = p
    /\ notified' = listeners
    /\ wrote' = {s \in listeners : WriteSucceeds(s, p)}
    /\ written' = [s \in MeterSensors |->
                      IF s \in listeners /\ WriteSucceeds(s, p)
                      THEN StateOf(s, p) ELSE written[s]]
    /\ op' = how
    /\ UNCHANGED <<results, extra, attrs, hass, listeners, on_remove, setupVars>>

PollRefresh == \E p \in PolledSnapshots : Refresh(p, "refresh")

\* async_update: await self._coordinator.async_request_refresh()
async_update(s) ==
    /\ hass[s] = "added"
    /\ \E p \in PolledSnapshots : Refresh(p, "update")

LifeNext ==
    \/ \E s \in MeterSensors : async_added_to_hass(s)
    \/ \E s \in MeterSensors : RemoveFromHass(s)
    \/ PollRefresh
    \/ \E s \in MeterSensors : async_update(s)

LifeSpec == LifeInit /\ [][LifeNext]_vars

-----------------------------------------------------------------------------
(* Platform setup.                                                         *)

AppIds == 1..MaxAppliances
DevIds == 1..MaxDevices

ApplianceRecords == [type : {"EL_SMART_METER", "AC"}, device : DevIds]
EventKeySets ==
    { {}, {"te"}, {"hu", "il"}, {"te", "hu", "il"}, {"te", "mo"}, {"mo"} }

ApplianceMaps == UNION {[S -> ApplianceRecords] : S \in SUBSET AppIds}
DeviceMaps == UNION {[S -> EventKeySets] : S \in SUBSET DevIds}

Ent(cls, id) == [cls |-> cls, id |-> id]

\* The ids of a dictionary in the order its values() are visited.
RECURSIVE Ordered(_)
Ordered(S) ==
    IF S = {} THEN <<>>
    ELSE LET m == CHOOSE x \in S : \A y \in S : x <= y
         IN  <<m>> \o Ordered(S \ {m})

\* for appliance in appliances.values(): three sensors for a smart meter
ForAppliance(apps, a) ==
    IF apps[a].type = "EL_SMART_METER"
    THEN <<Ent("NatureRemoE", a), Ent("NatureRemoEnergySensor", a),
           Ent("NatureRemoReturnedEnergySensor", a)>>
    ELSE <<>>

\* Variant: only the devices that host a smart meter are skipped.
HostDeviceIdsOfMeters(apps) ==
    {apps[a].device : a \in {x \in DOMAIN apps : apps[x].type = "EL_SMART_METER"}}

\* [appliance["device"]["id"] for appliance in appliances.values()]
HostDeviceIds(apps) == {apps[a].device : a \in DOMAIN apps}

\* for sensor in device["newest_events"].keys()
ForKey(key, d) ==
    CASE key = "te" -> <<Ent("NatureRemoTemperatureSensor", d)>>
      [] key = "hu" -> <<Ent("NatureRemoHumiditySensor", d)>>
      [] key = "il" -> <<Ent("NatureRemoIlluminanceSensor", d)>>
      [] OTHER -> <<>>

KeyOrder == <<"te", "hu", "il", "mo">>

RECURSIVE ForKeys(_, _, _)
ForKeys(keys, d, i) ==
    IF i > Len(KeyOrder) THEN <<>>
    ELSE (IF KeyOrder[i] \in keys THEN ForKey(KeyOrder[i], d) ELSE <<>>)
         \o ForKeys(keys, d, i + 1)

\* for device in devices.values(): skip the devices that host an appliance
ForDevice(apps, devs, d) ==
    IF d \in HostDeviceIds(apps) THEN <<>> ELSE ForKeys(devs[d], d, 1)

RECURSIVE ApplianceLoop(_, _)
ApplianceLoop(apps, ids) ==
    IF ids = <<>> THEN <<>>
    ELSE ForAppliance(apps, Head(ids)) \o ApplianceLoop(apps, Tail(ids))

RECURSIVE DeviceLoop(_, _, _)
DeviceLoop(apps, devs, ids) ==
    IF ids = <<>> THEN <<>>
    ELSE ForDevice(apps, devs, Head(ids)) \o DeviceLoop(apps, devs, Tail(ids))

SetupInit ==
    /\ discovery_info \in {"None", "discovered"}
    /\ appliances \in ApplianceMaps
    /\ devices \in DeviceMaps
    /\ entities = <<>>
    /\ add_calls = 0
    /\ pc = "start"
    /\ props = <<>>
    /\ attrs = InitAttrs
    /\ op = "init"
    /\ SensorIdle /\ LifeIdle

async_setup_platform ==
    /\ pc = "start"
    /\ pc' = "done"
    /\ IF discovery_info = "None"
       THEN UNCHANGED <<entities, add_calls>>
       ELSE /\ entities' = ApplianceLoop(appliances, Ordered(DOMAIN appliances))
                           \o DeviceLoop(appliances, devices, Ordered(DOMAIN devices))
            /\ add_calls' = add_calls + 1
    /\ op' = "setup"
    /\ UNCHANGED <<discovery_info, appliances, devices, sensorVars, lifeVars>>

SetupNext == async_setup_platform

SetupSpec == SetupInit /\ [][SetupNext]_vars

-----------------------------------------------------------------------------
(* The register set of a list, as the specification speaks of it.          *)

Present(list, code) == \E i \in 1..Len(list) : list[i].epc = code
Register(list, code) == list[CHOOSE i \in 1..Len(list) : list[i].epc = code].val.n
RegisterOr(list, code, default) ==
    IF Present(list, code) THEN Register(list, code) ELSE default
AllNumeric(list) == \A i \in 1..Len(list) : list[i].val.num
WasRead(s) == results[s].tag # "unread"

\* The unit table of the specification, by decimal exponent:
\* {0:1, 1:0.1, 2:0.01, 3:0.001, 4:0.0001, 10:10, 11:100, 12:1000}.
InUnitTable(u) == u \in {0, 1, 2, 3, 4, 10, 11, 12}
UnitExponent(u) ==
    CASE u \in 0..4 -> 0 - u
      [] u \in 10..12 -> u - 9

Example1 == <<P(EpcCoefficient, 2), P(EpcConsumed, 150), P(EpcUnit, 1)>>
Example2 == <<P(EpcUnit, 2), P(EpcReturned, 80)>>
Example3 == <<P(EpcReturned, 80)>>

-----------------------------------------------------------------------------
(* The claims.                                                             *)

\* C1: on every numeric register set the consumed-energy sensor's state is
\* raw * coefficient * scale, with raw register 224 (0 if absent), coefficient
\* register 211 (1 if absent) and scale the unit-table entry of register 225
\* (code 0 if absent; multiplier 1 for a code outside the table);
\* {211: 2, 224: 150, 225: 1} gives 30.0 = 300 * 10^-1.
C1_ConsumedEnergy ==
    (WasRead("energy") /\ AllNumeric(props)) =>
        LET u == RegisterOr(props, EpcUnit, 0)
        IN  /\ results["energy"] =
                 Value(RegisterOr(props, EpcConsumed, 0)
                           * RegisterOr(props, EpcCoefficient, 1),
                       IF InUnitTable(u) THEN UnitExponent(u) ELSE 0)
            /\ props = Example1 => results["energy"] = Value(300, -1)

C1_Witness ==
    /\ props = Example1
    /\ results["energy"] = Value(300, -1)

\* C2: with 227 present and the unit code in the unit table, the returned-energy
\* sensor's state is raw227 * coefficient211 * table[unit225] when 211, 225 and
\* 227 are present, raw227 * table[unit225] when 225 and 227 are present and 211
\* is not ({227: 80, 225: 2} gives 0.8), and raw227 when 225 is absent
\* ({227: 80} gives 80).
C2_ReturnedEnergy ==
    (/\ WasRead("returned") /\ AllNumeric(props) /\ Present(props, EpcReturned)
     /\ Present(props, EpcUnit) => InUnitTable(Register(props, EpcUnit))) =>
        LET raw == Register(props, EpcReturned)
        IN  /\ (Present(props, EpcCoefficient) /\ Present(props, EpcUnit)) =>
                  results["returned"] =
                      Value(raw * Register(props, EpcCoefficient),
                            UnitExponent(Register(props, EpcUnit)))
            /\ (~Present(props, EpcCoefficient) /\ Present(props, EpcUnit)) =>
                  results["returned"] =
                      Value(raw, UnitExponent(Register(props, EpcUnit)))
            /\ ~Present(props, EpcUnit) => results["returned"] = Value(raw, 0)
            /\ props = Example2 => results["returned"] = Value(80, -2)
            /\ props = Example3 => results["returned"] = Value(80, 0)

C2_Witness ==
    /\ props = Example2
    /\ results["returned"] = Value(80, -2)

\* C3: for either cumulative register (224 or 227), a unit code in register 225
\* that is no key of the unit table is treated as multiplier 1: the state is the
\* number raw * coefficient * 1, never a failure or a null state.
C3_UnknownUnitIsOne ==
    \A s \in {"energy", "returned"} :
        (/\ WasRead(s) /\ AllNumeric(props) /\ Present(props, RegisterOf(s))
         /\ Present(props, EpcUnit) /\ ~InUnitTable(Register(props, EpcUnit))) =>
            results[s] = Value(Register(props, RegisterOf(s))
                                   * RegisterOr(props, EpcCoefficient, 1), 0)

\* C4: for either cumulative register (224 or 227), when the register is absent
\* the state is the number 0, never null, whatever else is present.
C4_AbsentIsZero ==
    \A s \in {"energy", "returned"} :
        (WasRead(s) /\ AllNumeric(props) /\ ~Present(props, RegisterOf(s))) =>
            (results[s].tag = "value" /\ results[s].v = 0)

\* C5: when a register value of the list is not numeric, the state of the
\* consumed-energy or returned-energy sensor is null and no exception escapes.
C5_MalformedIsNull ==
    \A s \in {"energy", "returned"} :
        (WasRead(s) /\ ~AllNumeric(props)) => results[s] = NoneState

\* C6: when the register a smart-meter sensor reads is absent (231 power, 224
\* consumed, 227 returned), reading its state raises nothing and gives the
\* unavailable (null) state.
C6_AbsentIsUnavailable ==
    \A s \in MeterSensors :
        (WasRead(s) /\ AllNumeric(props) /\ ~Present(props, RegisterOf(s))) =>
            results[s] = NoneState

\* C7: the returned-energy sensor's extra state attributes can always be read
\* and carry a calc_mode value.
C7_ExtraAttributesReadable ==
    extra.tag # "unread" => extra.tag = "value"

\* C8: from being added to the host until being removed a smart-meter sensor is
\* a listener of the coordinator, every successful refresh in between writes the
\* sensor's state, and a removed sensor is not called back.
C8_RefreshWritesState ==
    /\ \A s \in MeterSensors : (hass[s] = "added") <=> (s \in listeners)
    /\ op \in {"refresh", "update"} =>
          \A s \in MeterSensors :
              /\ hass[s] = "added" => s \in wrote
              /\ hass[s] = "removed" => s \notin notified

\* The part of C8 that is about the subscription alone: exactly the added
\* sensors are listeners, and a refresh calls back exactly those.
SubscribedWhileAdded ==
    /\ \A s \in MeterSensors : (hass[s] = "added") <=> (s \in listeners)
    /\ op \in {"refresh", "update"} => notified = listeners

\* C9: reading a sensor's state, whether it returns a number, null or raises,
\* leaves the snapshot as the coordinator stored it, so every state read on a
\* snapshot is the state of that snapshot whatever was read before.
C9_ReadsLeaveSnapshot ==
    /\ props = snap
    /\ \A s \in MeterSensors : WasRead(s) => results[s] = StateOf(s, snap)

C9_Witness ==
    /\ results["power"].tag = "raise"
    /\ results["returned"].tag = "none"
    /\ results["energy"].tag = "value"
    /\ props # <<>>

\* How often entity e is in the sequence q.
Count(q, e) == Cardinality({i \in 1..Len(q) : q[i] = e})

MeterClasses ==
    {"NatureRemoE", "NatureRemoEnergySensor", "NatureRemoReturnedEnergySensor"}
ClassOfKey ==
    ("te" :> "NatureRemoTemperatureSensor") @@ ("hu" :> "NatureRemoHumiditySensor")
    @@ ("il" :> "NatureRemoIlluminanceSensor")

\* The entities C10 asks for: three for each smart meter, and one for each key
\* te, hu, il of each device that hosts no appliance.
Wanted ==
    {Ent(c, a) : c \in MeterClasses,
                 a \in {x \in DOMAIN appliances : appliances[x].type = "EL_SMART_METER"}}
    \cup
    UNION {{Ent(ClassOfKey[k], d) : k \in devices[d] \cap DOMAIN ClassOfKey} :
              d \in {x \in DOMAIN devices :
                        \A a \in DOMAIN appliances : appliances[a].device # x}}

ExactlyWanted ==
    /\ \A e \in Wanted : Count(entities, e) = 1
    /\ Len(entities) = Cardinality(Wanted)

\* C10 as written: platform setup calls the registration callback once, with
\* exactly the wanted entities.
C10_SetupRegistersOnce ==
    pc = "done" => (add_calls = 1 /\ ExactlyWanted)

\* C10 amended: with discovery information, platform setup calls the
\* registration callback once, with exactly the wanted entities; without
\* discovery information it does not call it.
C10_SetupRegistersWhenDiscovered ==
    pc = "done" =>
        IF discovery_info = "None"
        THEN add_calls = 0
        ELSE add_calls = 1 /\ ExactlyWanted

C10_Witness ==
    /\ pc = "done"
    /\ add_calls = 1
    /\ \E a \in DOMAIN appliances : appliances[a].type = "EL_SMART_METER"
    /\ \E a \in DOMAIN appliances :
          /\ appliances[a].type = "AC"
          /\ appliances[a].device \in DOMAIN devices
          /\ "te" \in devices[appliances[a].device]
    /\ \E e \in Wanted : e.cls = "NatureRemoHumiditySensor"

====
